---- MODULE Spec2Model ----
(***************************************************************************)
(* TrafficTracker (src/main.rs): a daemon that tallies outbound bytes over  *)
(* all network interfaces, checkpoints the tally in meta.json and installs  *)
(* a tc rate limit once the tally of the current window exceeds max_bytes.  *)
(*                                                                          *)
(* Three threads share one Mutex<Meta>: the interval saver, the limit       *)
(* resetter and the main (quota-check) loop.                                *)
(*                                                                          *)
(* Time is counted in whole days, so Duration::from_days(7) is 7.  The u64  *)
(* range of reset_at_ms is scaled down to 0..U64Max so that the unchecked   *)
(* addition of line 64 can leave it inside the model.                       *)
(***************************************************************************)
EXTENDS Integers, Sequences, FiniteSets, TLC

\* ---------------------------------------------------------------- bounds
StartTime == 8     \* wall clock (days since the epoch) when the process starts
MaxTime == 10      \* the clock stops advancing here
MaxTraffic == 2    \* the interfaces send at most this many bytes in all
NumIfaces == 2     \* entries of /sys/class/net

\* ------------------------------------------------------ program constants
SevenDays == 7     \* Duration::from_days(7), in days
U64Max == 15       \* u64::MAX, scaled

Ifaces == 1..NumIfaces
Threads == {"main", "saver", "resetter"}

\* settings the configuration file may hold (Config, all u64)
SaveIntervals == {2}
CheckIntervals == {0, 1}
SaveEveryN == {1}
CaptureTimeframes == {2, U64Max}
MaxBytes == {1}

VARIABLES
  now,         \* current_time_millis()
  tx_bytes,    \* /sys/class/net/<i>/statistics/tx_bytes, per interface
  eol,         \* what follows the number in every tx_bytes file
  disk,        \* meta.json: Absent, Corrupt or a Meta record
  config,      \* Config, immutable once loaded
  meta,        \* the Meta inside Arc<Mutex<Meta>>
  lock,        \* who holds the mutex: a thread or Free
  poisoned,    \* the mutex is poisoned: a thread panicked while holding it
  pc,          \* per thread: where it is
  wake,        \* per thread: the time its thread::sleep ends
  curr_bytes,  \* main loop: curr_bytes of line 70
  starting,    \* main loop: starting of line 72
  dist,        \* main loop: dist of line 73
  ev,          \* per thread: what its last step did (calls made, panics)
  applies,     \* enable_lower_bandwidth calls since starting_bytes was last
               \* rebaselined by the resetter, counted up to 2
  window_start \* the time of the resetter's last rebaseline, 0 before the first

vars == <<now, tx_bytes, eol, disk, config, meta, lock, poisoned, pc, wake,
          curr_bytes, starting, dist, ev, applies, window_start>>

Absent == "absent"
Corrupt == "corrupt"
Free == "free"

\* ------------------------------------------------------- decimal strings
DigitChars == <<"0", "1", "2", "3", "4", "5", "6", "7", "8", "9">>
LF == "\n"
CR == "\r"

\* BigUint::to_string
RECURSIVE BigUintToString(_)
BigUintToString(n) ==
  IF n < 10 THEN <<DigitChars[n + 1]>>
  ELSE BigUintToString(n \div 10) \o <<DigitChars[(n % 10) + 1]>>

DigitValue(c) == CHOOSE d \in 0..9 : DigitChars[d + 1] = c
IsDigit(c) == \E d \in 0..9 : DigitChars[d + 1] = c

\* BigUint::from_str: -1 stands for Err (the caller unwraps it and panics)
RECURSIVE ParseDigits(_)
ParseDigits(s) ==
  IF Len(s) = 0 THEN 0
  ELSE 10 * ParseDigits(SubSeq(s, 1, Len(s) - 1)) + DigitValue(s[Len(s)])

BigUintFromStr(s) ==
  IF Len(s) > 0 /\ \A i \in 1..Len(s) : IsDigit(s[i])
  THEN ParseDigits(s) ELSE -1

\* ------------------------------------------------------- the byte counter
\* the content of /sys/class/net/<i>/statistics/tx_bytes
CounterFile(i) == BigUintToString(tx_bytes[i]) \o eol

\* &raw[0..(raw.len() - 1)], parsed
ParseCounter(raw) == BigUintFromStr(SubSeq(raw, 1, Len(raw) - 1))

RECURSIVE SumIfaces(_)
SumIfaces(n) ==
  IF n = 0 THEN 0 ELSE SumIfaces(n - 1) + ParseCounter(CounterFile(n))

\* fetch_outbound_bytes() when every file can be read
FetchOutboundBytes == SumIfaces(NumIfaces)

\* line 166: the unwrap of BigUint::from_str panics on what is not a number
FetchPanics == \E i \in Ifaces : ParseCounter(CounterFile(i)) < 0

Min(a, b) == IF a < b THEN a ELSE b

\* u64::saturating_sub
SaturatingSub(a, b) == IF a > b THEN a - b ELSE 0

\* u64 + u64 of a release build
WrappingAdd(a, b) == (a + b) % (U64Max + 1)
\* ------------------------------------------------------------ the types
Meta(r, s, l) == [reset_at_ms |-> r, starting_bytes |-> s, last_saved_bytes |-> l]
ZeroMeta == Meta(0, <<"0">>, <<"0">>)

\* meta.json: kind is "absent", "corrupt" (a torn write) or "meta"
File(m) == [kind |-> "meta", meta |-> m]
AbsentFile == [kind |-> Absent, meta |-> ZeroMeta]
CorruptFile == [kind |-> Corrupt, meta |-> ZeroMeta]

Configs ==
  [save_interval_ms : SaveIntervals, check_interval_ms : CheckIntervals,
   save_every_n_bytes : SaveEveryN, capture_timeframe_ms : CaptureTimeframes,
   max_bytes : MaxBytes]

\* what fs::write can do: succeed, fail leaving the file, fail leaving it torn
WriteOutcomes == {"ok", "err", "torn"}

\* Meta::store: the file after fs::write of m with outcome w
Store(m, w) ==
  CASE w = "ok" -> File(m)
    [] w = "err" -> disk
    [] w = "torn" -> CorruptFile

\* the tags of a panic owed to the files: a counter file or meta.json that
\* cannot be read or parsed, a write of meta.json that fails
IoPanic == {"panic", "io_err"}

\* what running sudo tc on one interface can do: wait() returns Ok (whatever
\* the exit status), wait() returns Err, spawn() returns Err
CmdOutcomes == {"ok", "wait_err", "spawn_err"}

RECURSIVE TxSum(_)
TxSum(n) == IF n = 0 THEN 0 ELSE TxSum(n - 1) + tx_bytes[n]
\* the bytes sent so far over all interfaces
TxTotal == TxSum(NumIfaces)
\* the first interface whose command fails to start, NumIfaces + 1 if none
RECURSIVE FirstSpawnErr(_, _)
FirstSpawnErr(o, i) ==
  IF i > NumIfaces THEN NumIfaces + 1
  ELSE IF o[i] = "spawn_err" THEN i ELSE FirstSpawnErr(o, i + 1)

\* .spawn().unwrap(): the loop over the interfaces panics at the first
\* command that fails to start
SpawnPanics(o) == FirstSpawnErr(o, 1) <= NumIfaces

\* the interfaces whose command was waited for
Processed(o) == {i \in Ifaces : i < FirstSpawnErr(o, 1)}

\* what one enable_/disable_lowered_bandwidth call does, as tags: the call
\* itself, "skipped" when an interface is never reached, "panic" when the
\* unwrap of spawn() panics (an Err of wait() is logged and changes nothing)
ShapingEvents(op, o) ==
  {op}
  \cup (IF \E i \in Ifaces : i > FirstSpawnErr(o, 1) THEN {"skipped"} ELSE {})
  \cup (IF SpawnPanics(o) THEN {"panic"} ELSE {})

\* ------------------------------------------------------ the quota arithmetic
\* the subtraction without the clamp
ClampedDist_Unclamped(curr, base) == curr - base

\* lines 73-77: curr_bytes - starting, clamped at zero
ClampedDist(curr, base) == IF curr > base THEN curr - base ELSE 0

\* line 78
ShouldSave(d) == d >= config.save_every_n_bytes

\* the comparison with >= in the place of >
ExceedsQuota_Inclusive(d) == d >= config.max_bytes

\* lines 60 and 86
ExceedsQuota(d) == d > config.max_bytes

\* lines 58-59: BigUint - BigUint panics when the result would be negative
SubPanics(last, base) == last < base

\* the comparison with >= in the place of >
NeedsRebaseline_Inclusive(persisted, outbound) == persisted >= outbound

\* line 22: the persisted baseline is above the fresh reading
NeedsRebaseline(persisted, outbound) == persisted > outbound

\* a lock() that does not wait for the holder
CanLock_Always == TRUE

\* lines 37, 51, 57, 71: Mutex::lock returns once no thread holds the mutex
CanLock == lock = Free

\* a guard that is still held after the place of its drop
AfterDrop_Kept(t) == t

\* lines 40, 55, 66, 95, 98: the guard of thread t is dropped
AfterDrop(t) == Free

\* a lock() whose PoisonError is ignored
LockFails_Ignored == FALSE

\* lines 37, 51, 57, 71: meta.lock().unwrap() panics on a poisoned mutex
LockFails == poisoned

\* lines 92-94 and 52-54
SleepUntilReset == SaturatingSub(meta.reset_at_ms, now)

\* the reading the main loop took at its last line 70, in the place of a
\* fresh one
SaverReading_Stale == curr_bytes

\* line 38: the saver takes a fresh reading inside its critical section
SaverReading == FetchOutboundBytes

\* a main loop that keeps what it has stored in the shared Meta
SharedAfterStore_Updated(saved) == saved

\* lines 71 and 79-84: the guard is not mutable and the Meta that is stored
\* is a temporary, so the shared Meta is what it was
SharedAfterStore(saved) == meta

\* ------------------------------------------------------------------- Init
InitCounters == {[i \in Ifaces |-> 0]}

\* the checkpoints an earlier run may have left
InitFiles ==
  {AbsentFile, CorruptFile} \cup
  {File(Meta(r, BigUintToString(s), BigUintToString(l))) :
     r \in {StartTime + 1}, s \in {0, 2}, l \in {0, 2}}

Init ==
  /\ now = StartTime
  /\ tx_bytes \in InitCounters
  /\ eol = <<LF>>
  /\ disk \in InitFiles
  /\ config \in Configs
  /\ meta = ZeroMeta
  /\ lock = Free
  /\ poisoned = FALSE
  /\ pc = [main |-> "load", saver |-> "unstarted", resetter |-> "unstarted"]
  /\ wake = [t \in Threads |-> 0]
  /\ curr_bytes = 0
  /\ starting = 0
  /\ dist = 0
  /\ ev = [t \in Threads |-> {}]
  /\ applies = 0
  /\ window_start = 0

\* the process is alive: the main thread has not panicked
Running == pc.main # "exited"

\* ------------------------------------------------------------ environment
Tick ==
  /\ Running
  /\ now < MaxTime
  /\ now' = now + 1
  /\ UNCHANGED <<tx_bytes, eol, disk, config, meta, lock, poisoned, pc, wake,
                 curr_bytes, starting, dist, ev, applies, window_start>>

\* one more byte leaves the host; the interfaces take turns
Traffic ==
  /\ Running
  /\ TxTotal < MaxTraffic
  /\ tx_bytes' = [tx_bytes EXCEPT ![(TxTotal % NumIfaces) + 1] = @ + 1]
  /\ UNCHANGED <<now, eol, disk, config, meta, lock, poisoned, pc, wake,
                 curr_bytes, starting, dist, ev, applies, window_start>>

\* ---------------------------------------------------------------- startup
\* Meta::load
M_Load ==
  /\ pc.main = "load"
  /\ \E readable \in BOOLEAN, w \in WriteOutcomes :
       LET sent_bytes == BigUintToString(FetchOutboundBytes)
           cfg == Meta(SevenDays, sent_bytes, sent_bytes)
       IN  CASE disk.kind = "meta" ->
                  /\ meta' = disk.meta
                  /\ pc' = [pc EXCEPT !.main = "recover"]
                  /\ ev' = [ev EXCEPT !.main = {"load"}]
                  /\ UNCHANGED disk
             [] disk.kind = Corrupt ->
                  /\ pc' = [pc EXCEPT !.main = "exited"]
                  /\ ev' = [ev EXCEPT !.main = IoPanic]
                  /\ UNCHANGED <<meta, disk>>
             [] disk.kind = Absent ->
                  IF ~readable \/ FetchPanics
                  THEN /\ pc' = [pc EXCEPT !.main = "exited"]
                       /\ ev' = [ev EXCEPT !.main = IoPanic]
                       /\ UNCHANGED <<meta, disk>>
                  ELSE /\ disk' = Store(cfg, w)
                       /\ IF w = "ok"
                          THEN /\ meta' = cfg
                               /\ pc' = [pc EXCEPT !.main = "recover"]
                               /\ ev' = [ev EXCEPT !.main = {"seed", "store"}]
                          ELSE /\ pc' = [pc EXCEPT !.main = "exited"]
                               /\ ev' = [ev EXCEPT !.main = IoPanic]
                               /\ UNCHANGED meta
  /\ UNCHANGED <<applies, window_start, starting, now, tx_bytes, eol, config, lock, poisoned, wake, curr_bytes,
                 dist>>

\* lines 21-25
M_Recover ==
  /\ pc.main = "recover"
  /\ \E readable \in BOOLEAN, w \in WriteOutcomes :
       LET outbound == FetchOutboundBytes
           rebased == [meta EXCEPT !.starting_bytes = BigUintToString(outbound)]
       IN  IF ~readable \/ FetchPanics
           THEN /\ pc' = [pc EXCEPT !.main = "exited"]
                /\ ev' = [ev EXCEPT !.main = IoPanic]
                /\ UNCHANGED <<meta, disk>>
           ELSE IF NeedsRebaseline(BigUintFromStr(meta.starting_bytes), outbound)
           THEN /\ meta' = rebased
                /\ disk' = Store(rebased, w)
                /\ IF w = "ok"
                   THEN /\ pc' = [pc EXCEPT !.main = "spawn"]
                        /\ ev' = [ev EXCEPT !.main = {"store"}]
                   ELSE /\ pc' = [pc EXCEPT !.main = "exited"]
                        /\ ev' = [ev EXCEPT !.main = IoPanic]
           ELSE /\ pc' = [pc EXCEPT !.main = "spawn"]
                /\ ev' = [ev EXCEPT !.main = {}]
                /\ UNCHANGED <<meta, disk>>
  /\ UNCHANGED <<applies, window_start, starting, now, tx_bytes, eol, config, lock, poisoned, wake, curr_bytes,
                 dist>>

\* lines 28-67: the two threads are spawned and the main loop is entered
M_Spawn ==
  /\ pc.main = "spawn"
  /\ pc' = [main |-> "m_start", saver |-> "s_start", resetter |-> "r_start"]
  /\ ev' = [ev EXCEPT !.main = {}]
  /\ UNCHANGED <<applies, window_start, starting, now, tx_bytes, eol, disk, config, meta, lock, poisoned, wake,
                 curr_bytes, dist>>

\* --------------------------------------------------- interval saver thread
\* line 37 (after the sleep of line 41, if any)
S_Lock ==
  /\ Running
  /\ pc.saver = "s_start" \/ (pc.saver = "s_sleep" /\ now >= wake.saver)
  /\ CanLock
  /\ IF LockFails
     THEN /\ pc' = [pc EXCEPT !.saver = "panicked"]
          /\ ev' = [ev EXCEPT !.saver = {"panic"}]
          /\ UNCHANGED lock
     ELSE /\ pc' = [pc EXCEPT !.saver = "s_save"]
          /\ ev' = [ev EXCEPT !.saver = {}]
          /\ lock' = "saver"
  /\ wake' = [wake EXCEPT !.saver = 0]
  /\ UNCHANGED <<applies, window_start, starting, now, tx_bytes, eol, disk, config, meta, poisoned, curr_bytes, dist>>

\* lines 38-41
S_Save ==
  /\ Running
  /\ pc.saver = "s_save"
  /\ \E readable \in BOOLEAN, w \in WriteOutcomes :
       LET saved == [meta EXCEPT !.last_saved_bytes = BigUintToString(SaverReading)]
       IN  IF ~readable \/ FetchPanics
           THEN /\ pc' = [pc EXCEPT !.saver = "panicked"]
                /\ ev' = [ev EXCEPT !.saver = IoPanic]
                /\ poisoned' = TRUE
                /\ UNCHANGED <<meta, disk, wake>>
           ELSE /\ meta' = saved
                /\ disk' = Store(saved, w)
                /\ IF w = "ok"
                   THEN /\ pc' = [pc EXCEPT !.saver = "s_sleep"]
                        /\ ev' = [ev EXCEPT !.saver = {"store"}]
                        /\ wake' = [wake EXCEPT !.saver = now + config.save_interval_ms]
                        /\ UNCHANGED poisoned
                   ELSE /\ pc' = [pc EXCEPT !.saver = "panicked"]
                        /\ ev' = [ev EXCEPT !.saver = IoPanic]
                        /\ poisoned' = TRUE
                        /\ UNCHANGED wake
  /\ lock' = AfterDrop("saver")
  /\ UNCHANGED <<applies, window_start, starting, now, tx_bytes, eol, config, curr_bytes, dist>>

\* --------------------------------------------------- limit resetter thread
\* lines 51-56: lock, read reset_at_ms, unlock, start sleeping
R_Read ==
  /\ Running
  /\ pc.resetter = "r_start"
  /\ CanLock
  /\ IF LockFails
     THEN /\ pc' = [pc EXCEPT !.resetter = "panicked"]
          /\ ev' = [ev EXCEPT !.resetter = {"panic"}]
          /\ UNCHANGED wake
     ELSE /\ pc' = [pc EXCEPT !.resetter = "r_sleep"]
          /\ ev' = [ev EXCEPT !.resetter = {}]
          /\ wake' = [wake EXCEPT !.resetter = now + SleepUntilReset]
  /\ lock' = AfterDrop("resetter")
  /\ UNCHANGED <<applies, window_start, starting, now, tx_bytes, eol, disk, config, meta, poisoned, curr_bytes,
                 dist>>

\* line 57, once the sleep of line 56 is over
R_Wake ==
  /\ Running
  /\ pc.resetter = "r_sleep"
  /\ now >= wake.resetter
  /\ CanLock
  /\ IF LockFails
     THEN /\ pc' = [pc EXCEPT !.resetter = "panicked"]
          /\ ev' = [ev EXCEPT !.resetter = {"panic"}]
          /\ UNCHANGED lock
     ELSE /\ pc' = [pc EXCEPT !.resetter = "r_check"]
          /\ ev' = [ev EXCEPT !.resetter = {"fire"}]
          /\ lock' = "resetter"
  /\ wake' = [wake EXCEPT !.resetter = 0]
  /\ UNCHANGED <<applies, window_start, starting, now, tx_bytes, eol, disk, config, meta, poisoned, curr_bytes, dist>>

\* lines 58-62
R_Check ==
  /\ Running
  /\ pc.resetter = "r_check"
  /\ \E o \in [Ifaces -> CmdOutcomes] :
       LET last == BigUintFromStr(meta.last_saved_bytes)
           base == BigUintFromStr(meta.starting_bytes)
       IN  IF SubPanics(last, base)
           THEN /\ pc' = [pc EXCEPT !.resetter = "panicked"]
                /\ ev' = [ev EXCEPT !.resetter = {"panic"}]
                /\ poisoned' = TRUE
                /\ lock' = Free
           ELSE IF ExceedsQuota(last - base)
           THEN /\ ev' = [ev EXCEPT !.resetter = ShapingEvents("release", o)]
                /\ IF SpawnPanics(o)
                   THEN /\ pc' = [pc EXCEPT !.resetter = "panicked"]
                        /\ poisoned' = TRUE
                        /\ lock' = Free
                   ELSE /\ pc' = [pc EXCEPT !.resetter = "r_rebase"]
                        /\ UNCHANGED <<poisoned, lock>>
           ELSE /\ pc' = [pc EXCEPT !.resetter = "r_rebase"]
                /\ ev' = [ev EXCEPT !.resetter = {}]
                /\ UNCHANGED <<poisoned, lock>>
  /\ UNCHANGED <<applies, window_start, starting, now, tx_bytes, eol, disk, config, meta, wake, curr_bytes, dist>>

\* line 64: current_time_millis() as u64 + reset_delay.  The sum may not fit
\* a u64: a build with overflow checks panics, one without wraps around.
ResetAtOverflows == now + config.capture_timeframe_ms > U64Max
NewResetAt == WrappingAdd(now, config.capture_timeframe_ms)

\* lines 63-66
R_Rebase ==
  /\ Running
  /\ pc.resetter = "r_rebase"
  /\ \E readable \in BOOLEAN, w \in WriteOutcomes, overflow_checks \in BOOLEAN :
       LET rebased == [meta EXCEPT !.starting_bytes = BigUintToString(FetchOutboundBytes),
                                   !.reset_at_ms = NewResetAt]
       IN  IF ~readable \/ FetchPanics
           THEN /\ pc' = [pc EXCEPT !.resetter = "panicked"]
                /\ ev' = [ev EXCEPT !.resetter = IoPanic]
                /\ poisoned' = TRUE
                /\ UNCHANGED <<meta, disk, applies, window_start>>
           ELSE IF ResetAtOverflows /\ overflow_checks
           THEN /\ meta' = [meta EXCEPT !.starting_bytes = rebased.starting_bytes]
                /\ pc' = [pc EXCEPT !.resetter = "panicked"]
                /\ ev' = [ev EXCEPT !.resetter = {"panic"}]
                /\ poisoned' = TRUE
                /\ UNCHANGED <<disk, applies, window_start>>
           ELSE /\ meta' = rebased
                /\ applies' = 0
                /\ window_start' = now
                /\ disk' = Store(rebased, w)
                /\ IF w = "ok"
                   THEN /\ pc' = [pc EXCEPT !.resetter = "r_start"]
                        /\ ev' = [ev EXCEPT !.resetter = {"rebaseline", "store"}]
                        /\ UNCHANGED poisoned
                   ELSE /\ pc' = [pc EXCEPT !.resetter = "panicked"]
                        /\ ev' = [ev EXCEPT !.resetter = IoPanic]
                        /\ poisoned' = TRUE
  /\ lock' = AfterDrop("resetter")
  /\ UNCHANGED <<now, tx_bytes, eol, config, wake, curr_bytes, starting, dist>>
\* ------------------------------------------------- main (quota-check) loop
\* line 70 (after the sleeps of lines 96 and 100, if any)
M_Fetch ==
  /\ pc.main = "m_start" \/ (pc.main = "m_sleep" /\ now >= wake.main)
  /\ \E readable \in BOOLEAN :
       IF readable /\ ~FetchPanics
       THEN /\ curr_bytes' = FetchOutboundBytes
            /\ pc' = [pc EXCEPT !.main = "m_lock"]
            /\ ev' = [ev EXCEPT !.main = {}]
       ELSE /\ pc' = [pc EXCEPT !.main = "exited"]
            /\ ev' = [ev EXCEPT !.main = IoPanic]
            /\ UNCHANGED curr_bytes
  /\ wake' = [wake EXCEPT !.main = 0]
  /\ starting' = 0
  /\ dist' = 0
  /\ UNCHANGED <<applies, window_start, now, tx_bytes, eol, disk, config, meta, lock, poisoned>>

\* line 71
M_Lock ==
  /\ pc.main = "m_lock"
  /\ CanLock
  /\ IF LockFails
     THEN /\ pc' = [pc EXCEPT !.main = "exited"]
          /\ ev' = [ev EXCEPT !.main = {"panic"}]
          /\ UNCHANGED lock
     ELSE /\ pc' = [pc EXCEPT !.main = "m_check"]
          /\ ev' = [ev EXCEPT !.main = {}]
          /\ lock' = "main"
  /\ UNCHANGED <<applies, window_start, starting, now, tx_bytes, eol, disk, config, meta, poisoned, wake,
                 curr_bytes, dist>>

\* lines 72-100
M_Check ==
  /\ pc.main = "m_check"
  /\ \E w \in WriteOutcomes, o \in [Ifaces -> CmdOutcomes] :
       LET base == BigUintFromStr(meta.starting_bytes)
           d == ClampedDist(curr_bytes, base)
           saves == ShouldSave(d)
           saved == Meta(meta.reset_at_ms, meta.starting_bytes,
                         BigUintToString(curr_bytes))
           exceeded == ExceedsQuota(d)
           sleep_time == IF exceeded THEN SleepUntilReset ELSE 0
       IN  /\ starting' = base
           /\ dist' = d
           /\ disk' = IF saves THEN Store(saved, w) ELSE disk
           /\ meta' = IF saves THEN SharedAfterStore(saved) ELSE meta
           /\ IF saves /\ w # "ok"
              THEN /\ pc' = [pc EXCEPT !.main = "exited"]
                   /\ ev' = [ev EXCEPT !.main = IoPanic]
                   /\ UNCHANGED <<wake, applies>>
              ELSE IF exceeded
              THEN /\ applies' = Min(applies + 1, 2)
                   /\ ev' = [ev EXCEPT !.main =
                               ShapingEvents("apply", o) \cup
                               (IF saves THEN {"store"} ELSE {})]
                   /\ IF SpawnPanics(o)
                      THEN /\ pc' = [pc EXCEPT !.main = "exited"]
                           /\ UNCHANGED wake
                      ELSE /\ pc' = [pc EXCEPT !.main = "m_sleep"]
                           /\ wake' = [wake EXCEPT !.main =
                                         now + sleep_time + config.check_interval_ms]
              ELSE /\ pc' = [pc EXCEPT !.main = "m_sleep"]
                   /\ ev' = [ev EXCEPT !.main = IF saves THEN {"store"} ELSE {}]
                   /\ wake' = [wake EXCEPT !.main = now + config.check_interval_ms]
                   /\ UNCHANGED applies
  /\ lock' = AfterDrop("main")
  /\ UNCHANGED <<now, tx_bytes, eol, config, poisoned, curr_bytes, window_start>>

Next ==
  \/ Tick
  \/ Traffic
  \/ M_Load
  \/ M_Recover
  \/ M_Spawn
  \/ S_Lock
  \/ S_Save
  \/ R_Read
  \/ R_Wake
  \/ R_Check
  \/ R_Rebase
  \/ M_Fetch
  \/ M_Lock
  \/ M_Check

Spec == Init /\ [][Next]_vars
\* threads are scheduled and the clock advances: every step of a loop that
\* stays possible is taken in the end
FairSpec ==
  /\ Init
  /\ [][Next]_vars
  /\ WF_vars(Tick)
  /\ WF_vars(M_Fetch) /\ WF_vars(M_Lock) /\ WF_vars(M_Check)
  /\ WF_vars(S_Lock) /\ WF_vars(S_Save)
  /\ WF_vars(R_Read) /\ WF_vars(R_Wake) /\ WF_vars(R_Check) /\ WF_vars(R_Rebase)

\* --------------------------------------------- fetch_outbound_bytes alone
MaxCounter == 17   \* a tx_bytes file holds a number up to this one

\* what may follow the number: nothing, a line feed, carriage return and
\* line feed
LineEndings == {<<>>, <<LF>>, <<CR, LF>>}

\* any counters, any line ending, the main loop about to read them
ReaderInit ==
  /\ now = StartTime
  /\ tx_bytes \in [Ifaces -> 0..MaxCounter]
  /\ eol \in LineEndings
  /\ disk = AbsentFile
  /\ config \in {c \in Configs : c.check_interval_ms = 0 /\ c.capture_timeframe_ms = 2}
  /\ meta = ZeroMeta
  /\ lock = Free
  /\ poisoned = FALSE
  /\ pc = [main |-> "m_start", saver |-> "s_start", resetter |-> "r_start"]
  /\ wake = [t \in Threads |-> 0]
  /\ curr_bytes = 0
  /\ starting = 0
  /\ dist = 0
  /\ ev = [t \in Threads |-> {}]
  /\ applies = 0
  /\ window_start = 0

\* lines 157-170, called from line 70, every file readable
ReadTotal ==
  /\ pc.main = "m_start"
  /\ IF FetchPanics
     THEN /\ pc' = [pc EXCEPT !.main = "exited"]
          /\ ev' = [ev EXCEPT !.main = IoPanic]
          /\ UNCHANGED curr_bytes
     ELSE /\ curr_bytes' = FetchOutboundBytes
          /\ pc' = [pc EXCEPT !.main = "m_lock"]
          /\ ev' = [ev EXCEPT !.main = {}]
  /\ UNCHANGED <<now, tx_bytes, eol, disk, config, meta, lock, poisoned, wake,
                 starting, dist, applies, window_start>>

ReaderSpec == ReaderInit /\ [][ReadTotal]_vars

\* ------------------------------------------------------------- properties
\* thread t is between a lock() and the drop of its guard
InCritical(t) ==
  CASE t = "main" -> pc.main = "m_check"
    [] t = "saver" -> pc.saver = "s_save"
    [] t = "resetter" -> pc.resetter \in {"r_check", "r_rebase"}

\* thread t is inside a thread::sleep (lines 41, 56, 96 and 100)
Sleeping(t) ==
  CASE t = "main" -> pc.main = "m_sleep"
    [] t = "saver" -> pc.saver = "s_sleep"
    [] t = "resetter" -> pc.resetter = "r_sleep"

\* a counter file or meta.json could not be read, parsed or written
IoFailed == \E t \in Threads : "io_err" \in ev[t]

\* a tc command could not be started
SpawnFailed ==
  \E t \in Threads : "panic" \in ev[t] /\ ev[t] \cap {"apply", "release"} # {}

StartingBytes == BigUintFromStr(meta.starting_bytes)
LastSavedBytes == BigUintFromStr(meta.last_saved_bytes)

\* C1: when the resetter fires in a window in which enable_lower_bandwidth
\* was called, it calls disable_lowered_bandwidth before it rebaselines
\* (stated for the windows that end after the process has started).
C1_ReleaseFollowsApply ==
  (pc.resetter = "r_rebase" /\ applies > 0 /\ meta.reset_at_ms > StartTime)
    => "release" \in ev.resetter

\* C2: at most one enable_lower_bandwidth call between two rebaselines of
\* starting_bytes, and a call only when curr_bytes - starting_bytes exceeds
\* max_bytes (the count is stated for the windows that end after the process
\* has started).
C2_OneApplyPerWindow ==
  /\ meta.reset_at_ms > StartTime => applies <= 1
  /\ "apply" \in ev.main => dist > config.max_bytes

\* C3: after the resetter has fired and before it rebaselines,
\* disable_lowered_bandwidth has been called if and only if
\* last_saved_bytes - starting_bytes of the checkpoint, still the one of the
\* closing window, exceeds max_bytes.
C3_ReleaseIffExceeded ==
  /\ pc.resetter = "r_rebase" =>
       ("release" \in ev.resetter <=> LastSavedBytes - StartingBytes > config.max_bytes)
  /\ "release" \in ev.resetter =>
       /\ pc.resetter \in {"r_rebase", "panicked"}
       /\ LastSavedBytes - StartingBytes > config.max_bytes
       /\ "rebaseline" \notin ev.resetter

C3_Witness == pc.resetter = "r_rebase" /\ "release" \in ev.resetter

\* C4: a main-loop iteration whose reading is at least save_every_n_bytes
\* above the last_saved_bytes of meta.json writes the checkpoint with
\* last_saved_bytes set to the reading (or dies of a failed write).
C4_SavesEveryNBytes ==
  [][(/\ pc.main = "m_check"
      /\ pc'.main # "m_check"
      /\ disk.kind = "meta"
      /\ curr_bytes - BigUintFromStr(disk.meta.last_saved_bytes)
           >= config.save_every_n_bytes)
     => \/ disk' = File(Meta(meta.reset_at_ms, meta.starting_bytes,
                             BigUintToString(curr_bytes)))
        \/ "panic" \in ev'.main]_vars

\* C5: Meta::load without a meta.json seeds reset_at_ms with the current time
\* plus capture_timeframe_ms, both byte fields with one fresh reading, and
\* writes the file.
C5_SeedResetAt ==
  [][(pc.main = "load" /\ "seed" \in ev'.main)
     => /\ meta'.reset_at_ms = now + config.capture_timeframe_ms
        /\ meta'.reset_at_ms > now
        /\ meta'.starting_bytes = BigUintToString(TxTotal)
        /\ meta'.last_saved_bytes = BigUintToString(TxTotal)
        /\ disk' = File(meta')]_vars

\* C6: the startup recovery rebaselines starting_bytes to the fresh reading
\* and writes meta.json exactly when the reading is below the persisted
\* starting_bytes, else changes and writes nothing; no thread has been spawned
\* before it is over.
C6_StartupRecovery ==
  [][/\ (pc.main = "recover" /\ pc'.main = "spawn") =>
          IF TxTotal < BigUintFromStr(disk.meta.starting_bytes)
          THEN /\ meta' = [meta EXCEPT !.starting_bytes = BigUintToString(TxTotal)]
               /\ disk' = File(meta')
               /\ "store" \in ev'.main
          ELSE /\ meta' = meta
               /\ disk' = disk
               /\ "store" \notin ev'.main
     /\ pc'.main \in {"load", "recover", "spawn"} =>
          (pc'.saver = "unstarted" /\ pc'.resetter = "unstarted")]_vars

C6_Witness ==
  /\ pc.main = "spawn"
  /\ "store" \in ev.main
  /\ StartingBytes = TxTotal
  /\ disk = File(meta)

\* C7: dist of the main loop is never negative: it is curr_bytes -
\* starting_bytes when curr_bytes is above starting_bytes and 0 otherwise, and
\* an iteration with curr_bytes below starting_bytes does not call
\* enable_lower_bandwidth.
C7_DistClamped ==
  [][/\ dist' >= 0
     /\ (pc.main = "m_check" /\ pc'.main # "m_check") =>
          /\ starting' = StartingBytes
          /\ curr_bytes > StartingBytes => dist' = curr_bytes - StartingBytes
          /\ curr_bytes <= StartingBytes => dist' = 0
          /\ curr_bytes < StartingBytes => "apply" \notin ev'.main]_vars

C7_Witness ==
  /\ pc.main = "m_sleep"
  /\ curr_bytes < starting
  /\ dist = 0
  /\ "apply" \notin ev.main

\* C8: a rebaseline of the resetter stores the time of the rebaseline plus
\* capture_timeframe_ms in reset_at_ms, which is then later than that time,
\* sets starting_bytes to a fresh reading and writes meta.json, all in one
\* critical section.
C8_ResetAtAhead ==
  [][(pc.resetter = "r_rebase" /\ "rebaseline" \in ev'.resetter)
     => /\ meta'.reset_at_ms = now + config.capture_timeframe_ms
        /\ (config.capture_timeframe_ms > 0 => meta'.reset_at_ms > now)
        /\ meta'.starting_bytes = BigUintToString(TxTotal)
        /\ disk' = File(meta')
        /\ lock = "resetter"]_vars

\* C9: a call of enable_lower_bandwidth or disable_lowered_bandwidth reaches
\* every interface and its caller goes on, whatever the commands do.
C9_BestEffort ==
  \A t \in {"main", "resetter"} :
    (ev[t] \cap {"apply", "release"} # {}) =>
      ("skipped" \notin ev[t] /\ "panic" \notin ev[t])

\* C10: once the saver or the resetter has panicked in its critical section,
\* no thread is or gets inside a critical section, the checkpoint, meta.json
\* and the calls made stay as they are, and the main thread exits (if its
\* sleep ends before the clock of the model stops).
C10_NoStepAfterPanic ==
  poisoned =>
    /\ lock = Free
    /\ pc.main # "m_check"
    /\ pc.saver # "s_save"
    /\ pc.resetter \notin {"r_check", "r_rebase"}

C10_FatalStopsAll ==
  /\ []C10_NoStepAfterPanic
  /\ [][poisoned => (/\ meta' = meta
                     /\ disk' = disk
                     /\ applies' = applies
                     /\ \A t \in Threads :
                          ev'[t] # ev[t] =>
                            ev'[t] \cap {"apply", "release", "store", "rebaseline"} = {})]_vars
  /\ (poisoned /\ wake.main <= MaxTime) ~> (pc.main = "exited")

C10_Witness ==
  /\ poisoned
  /\ pc.main = "exited"
  /\ pc.saver = "panicked"
  /\ pc.resetter # "panicked"

\* C11: fetch_outbound_bytes returns the exact sum of the counters of all
\* interfaces, whatever follows the number in a tx_bytes file (nothing, LF or
\* CR LF) and however large the numbers are.
C11_ReadTotalExact ==
  [][pc.main = "m_start" => (pc'.main = "m_lock" /\ curr_bytes' = TxTotal)]_vars

\* C12: when the resetter is about to compute last_saved_bytes -
\* starting_bytes, last_saved_bytes is not below starting_bytes in the
\* checkpoint, so the subtraction does not underflow.
C12_NoUnderflow ==
  pc.resetter = "r_check" => LastSavedBytes >= StartingBytes

\* C13: a thread is inside a critical section exactly while it holds the
\* mutex, so at most one is; once the threads run, the checkpoint changes only
\* in a step of the thread that holds the mutex; and the main loop computes
\* starting, dist and its sleep from the one checkpoint it holds, unchanged.
C13_LockedAccess ==
  /\ [](\A t \in Threads : InCritical(t) <=> lock = t)
  /\ [][(meta' # meta /\ pc.main \notin {"load", "recover"})
          => \E t \in Threads : lock = t /\ pc'[t] # pc[t]]_vars
  /\ [][(pc.main = "m_check" /\ pc'.main # "m_check")
          => /\ lock = "main"
             /\ meta' = meta
             /\ starting' = StartingBytes
             /\ dist' = ClampedDist(curr_bytes, StartingBytes)
             /\ pc'.main = "m_sleep" =>
                  wake'.main = now + config.check_interval_ms
                    + (IF dist' > config.max_bytes
                       THEN SaturatingSub(meta.reset_at_ms, now) ELSE 0)]_vars

\* the saver holds the mutex while the main loop and the woken resetter wait
C13_Witness ==
  /\ lock = "saver"
  /\ pc.main = "m_lock"
  /\ pc.resetter = "r_sleep"
  /\ now >= wake.resetter

\* C14: no thread is inside a thread::sleep while it holds the mutex: each of
\* the sleeps (save interval, until reset_at_ms, check interval, throttled)
\* starts after the guard has been dropped.
C14_NoSleepWithLock ==
  \A t \in Threads : Sleeping(t) => lock # t

\* the main loop in its throttled sleep and the resetter asleep until
\* reset_at_ms, while the saver holds the mutex
C14_Witness ==
  /\ pc.main = "m_sleep"
  /\ "apply" \in ev.main
  /\ wake.main > now
  /\ meta.reset_at_ms > now
  /\ pc.resetter = "r_sleep"
  /\ wake.resetter > now
  /\ lock = "saver"

\* C15: the three loops keep iterating unless there is a fatal failure: as
\* long as no file has failed to be read, parsed or written and no tc command
\* has failed to start, the process is running and neither spawned thread has
\* panicked (stated for the settings whose window fits the u64 range).
C15_LoopsKeepRunning ==
  (~IoFailed /\ ~SpawnFailed /\ ~ResetAtOverflows)
    => (Running /\ \A t \in Threads : pc[t] # "panicked")

\* C16: once the threads run and while the checkpoint is not above the
\* counters (no counter has been reset since it was taken), no step lowers
\* starting_bytes or last_saved_bytes of the shared checkpoint.
C16_BytesMonotone ==
  [][(/\ pc.main \notin {"load", "recover"}
      /\ StartingBytes <= TxTotal
      /\ LastSavedBytes <= TxTotal)
     => (/\ BigUintFromStr(meta'.starting_bytes) >= StartingBytes
         /\ BigUintFromStr(meta'.last_saved_bytes) >= LastSavedBytes)]_vars

\* the resetter has just rebaselined and the saver has saved, both on the
\* highest reading
C16_Witness ==
  /\ "rebaseline" \in ev.resetter
  /\ "store" \in ev.saver
  /\ StartingBytes = MaxTraffic
  /\ LastSavedBytes = MaxTraffic

\* C17: a write of meta.json by the main loop that follows a write by the
\* saver does not lower the last_saved_bytes held in the file.
C17_FileLastSavedMonotone ==
  [][(/\ "store" \in ev.saver
      /\ disk = File(meta)
      /\ "store" \in ev'.main
      /\ disk'.kind = "meta")
     => BigUintFromStr(disk'.meta.last_saved_bytes)
          >= BigUintFromStr(disk.meta.last_saved_bytes)]_vars

\* C18: no step of a main-loop iteration changes the shared checkpoint,
\* whether or not it stores or calls enable_lower_bandwidth; in meta.json an
\* iteration whose write does not fail changes nothing but last_saved_bytes,
\* which becomes the reading of the iteration.
C18_CheckLeavesMeta ==
  [][(pc.main \in {"m_start", "m_sleep", "m_lock", "m_check"} /\ pc'.main # pc.main)
     => /\ meta' = meta
        /\ "io_err" \notin ev'.main =>
             /\ disk'.kind = disk.kind
             /\ disk'.meta.reset_at_ms = disk.meta.reset_at_ms
             /\ disk'.meta.starting_bytes = disk.meta.starting_bytes
             /\ disk' # disk =>
                  /\ "store" \in ev'.main
                  /\ disk'.meta.last_saved_bytes = BigUintToString(curr_bytes)]_vars

\* an iteration has stored and throttled: the file holds its reading, the
\* shared checkpoint does not
C18_Witness ==
  /\ pc.main = "m_sleep"
  /\ {"store", "apply"} \subseteq ev.main
  /\ disk.kind = "meta"
  /\ disk.meta.last_saved_bytes = BigUintToString(curr_bytes)
  /\ disk.meta.last_saved_bytes # meta.last_saved_bytes
  /\ disk.meta.starting_bytes = meta.starting_bytes
  /\ disk.meta.reset_at_ms = meta.reset_at_ms

\* C19: the resetter rebaselines only at a time that is not before the
\* reset_at_ms of the checkpoint, a window it has started lasts at least
\* capture_timeframe_ms until its next rebaseline, and once the threads run
\* no step but the resetter's rebaseline changes reset_at_ms.
C19_WindowNotCutShort ==
  [][/\ (pc.resetter = "r_rebase" /\ "rebaseline" \in ev'.resetter) =>
          /\ now >= meta.reset_at_ms
          /\ window_start > 0 => now - window_start >= config.capture_timeframe_ms
     /\ (meta'.reset_at_ms # meta.reset_at_ms /\ pc.main \notin {"load", "recover"}) =>
          (pc.resetter = "r_rebase" /\ pc'.resetter # "r_rebase")]_vars
====
